---------------------------- MODULE Spec2Model ----------------------------
(***************************************************************************)
(* Live match tracker of the Whitecaps scores bot                          *)
(* (src/whitecaps_bot/bot.py, tracker.py, apifootball.py).                 *)
(*                                                                         *)
(* One tick of WhitecapsBot._update_once is a coroutine; between two of    *)
(* its await points the code runs without interruption.  Every action      *)
(* below is the resumption of the coroutine from one await point, with     *)
(* the result the awaited call produced, up to the next await point or     *)
(* the end of the tick.  pc names the await point the tick is suspended    *)
(* at ("sleep" is the asyncio.sleep between two ticks).                    *)
(*                                                                         *)
(* A notification is "emitted" when the code makes the send call; whether  *)
(* the sink delivers it is the sink's business (Abort models a send that   *)
(* raises, or a cancellation delivered at the await point).                *)
(***************************************************************************)
EXTENDS Integers, Sequences, FiniteSets, TLC

\* ---- bounds of the model ------------------------------------------------
MaxFixture == 2     \* fixture ids are 1..MaxFixture
MaxGoals   == 1     \* each side's goals are 0..MaxGoals
MaxPlays   == 2     \* entries of one card / substitution detail payload
MaxPlayers == 1     \* distinct players that can appear in detail payloads
MaxPending == 1     \* cancellations requested and not yet delivered, per program

\* ---- values ---------------------------------------------------------------
NoId == 0           \* None for an id (Python: falsy)
None == << >>       \* None for an optional value; a present value v is <<v>> or a pair

ForumChannelId == 50
ChannelId      == 60
CommandChannelId == 61         \* ctx.channel.id of a command sent from another channel
CommandChannels == {ChannelId, CommandChannelId}
ThreadIdOf(fid) == 100 + fid   \* id Discord gives the thread of fixture fid's title

THREAD_CREATION_WINDOW == 24   \* hours

PRE_MATCH_CODES == {"TBD", "NS", "PST", "CANC", "ABD", "AWD", "WO"}
IN_MATCH_CODES  == {"1H", "HT", "2H", "ET", "BT", "P", "LIVE", "INT"}
FINAL_CODES     == {"FT", "AET", "PEN"}

FixtureIds == 1..MaxFixture
Goals      == 0..MaxGoals
Players    == 1..MaxPlayers

\* (short_status, long_status) pairs the providers deliver: API-Football
\* codes, and the ESPN state code IN with ESPN's halftime detail
Statuses == { <<"NS", "Not Started">>, <<"1H", "First Half">>,
              <<"HT", "Half Time">>,   <<"FT", "Match Finished">>,
              <<"IN", "Halftime">> }
KickedOff  == <<0>>                    \* starts_at of a match that has begun
StartTimes == {None, <<30>>}           \* starts_at of a match to come, hours on the clock
Clock      == {0, 10}                  \* datetime.now(), hours

\* MatchState snapshots (elapsed, names, venue only feed the embeds).  A
\* match that has not started has no goals and a kickoff time to come (or
\* none); any other has a kickoff time in the past.
Matches ==
    { m \in [fixture_id : FixtureIds, home_goals : Goals, away_goals : Goals,
             status : Statuses, starts_at : StartTimes \cup {KickedOff}] :
        IF m.status[1] = "NS"
        THEN m.starts_at \in StartTimes /\ m.home_goals = 0 /\ m.away_goals = 0
        ELSE m.starts_at = KickedOff }
NoMatch == [fixture_id |-> NoId, home_goals |-> 0, away_goals |-> 0,
            status |-> <<"", "">>, starts_at |-> None]

\* the clock readings that tell snapshots apart
Readings(m) == IF m.starts_at \in {None, KickedOff} THEN {0} ELSE Clock

\* MatchState.state
State(m) ==
    LET short == m.status[1]
    IN  IF short \in IN_MATCH_CODES THEN "in"
        ELSE IF short \in FINAL_CODES THEN "post"
        ELSE "pre"

\* MatchState.is_halftime
IsHalftime(m) == m.status[1] = "HT" \/ m.status[2] = "Halftime"

Score(m) == <<m.home_goals, m.away_goals>>

\* Detail feed entries for fixture fid, as get_cards / get_substitutions build them
CardEvents(fid) == { [fixture_id |-> fid, elapsed |-> 30, team_name |-> "VAN",
                      player_name |-> p, card_type |-> "Yellow Card"] : p \in Players }
SubEvents(fid)  == { [fixture_id |-> fid, elapsed |-> 60, team_name |-> "VAN",
                      player_in |-> p, player_out |-> p + MaxPlayers] : p \in Players }

CardDedupeKey(c) == <<c.fixture_id, c.elapsed, c.team_name, c.player_name, c.card_type>>
SubDedupeKey(e)  == <<e.fixture_id, e.elapsed, e.team_name, e.player_in, e.player_out>>

SeqsUpTo(S, n) == UNION { [1..k -> S] : k \in 0..n }

\* A logical notification
Ev(kind, fid, key) == [kind |-> kind, fid |-> fid, key |-> key]

VARIABLES
    \* MatchTracker fields
    current_fixture_id, match_thread_id, last_score, posted_sub_keys,
    posted_card_keys, halftime_posted, fulltime_posted, threads_created_for,
    \* WhitecapsBot fields
    forum_channel_id, target_channel_id,
    \* the tick in progress: await point, locals
    pc, match, queue,
    \* observation of the run
    tick,         \* what the current (or last) tick saw and did
    prev,         \* the same for the tick before it
    tickLog,      \* notifications emitted by the current (or last) tick, in order
    emittedOnce,  \* notifications emitted at least once since process start
    emittedTwice, \* notifications emitted more than once since process start
    scen,         \* length of the prefix of the scenario poll sequence seen so far
    deferredFor,  \* fixture whose thread was put off as outside the window
    obs,          \* what this run observes: which of the records above are kept
    call,         \* a direct call of should_create_thread: clock reading and result
    aborted,      \* the first await of the run that raised: fixture, await point, notification
    \* WhitecapsBot.update_task and the loop tasks it has created
    update_task,  \* the handle: "none", or the state of the task it refers to
    liveTasks,    \* loop tasks created, not cancelled and not finished
    cancelling,   \* tasks whose cancellation is requested and not yet delivered,
                  \* counted by where they are suspended (inside a tick / outside)
    resumed,      \* a task went on running after its cancellation was delivered
    delivered,    \* where a cancellation was delivered since the last task was created
    \* the legacy tracker (src/tracker.py, src/bot.py)
    legacy_channel_id, legacy_forum_channel_id,   \* CHANNEL_ID, FORUM_CHANNEL_ID
    legacy_task,       \* tracker._task: "none", or the state of the task it refers to
    legacy_live,       \* _loop tasks created, not cancelled and not finished
    legacy_cancelling, \* where the task tracker._task refers to awaits its cancellation
    legacy_resumed,    \* a _loop task went on running after its cancellation was delivered
    legacy_ctl,        \* the last calls of the control API: "stopped", "restarted" or "none"
    legacy_pc,         \* await point of the _loop task tracker._task refers to
    legacy_match,      \* what the current (or last) _tick observed
    legacy_interval,   \* seconds the loop sleeps after the last tick
    legacy_queue,      \* key events _handle_new_events has still to go through
    \* MatchTracker fields of the legacy tracker
    legacy_current_match_id, legacy_last_state, legacy_match_over, legacy_thread,
    legacy_live_message, legacy_seen_events,
    legacy_hist,         \* observer: the first key event announced and the first forum thread created
    \* ScoreProvider (src/whitecaps_bot/provider.py) and the fetches of one tick
    last_espn_event_id,  \* ScoreProvider._last_espn_event_id
    api_football,        \* ScoreProvider.api_football is not None
    provider_pc,         \* await point of the tick, as far as it uses the provider
    provider_snapshot,   \* fixture id of the tick's snapshot and the event id returned with it
    provider_fetch       \* the last detail fetch: feed and the ESPN event id it asked for

trackerVars == <<current_fixture_id, match_thread_id, last_score, posted_sub_keys,
                 posted_card_keys, halftime_posted, fulltime_posted, threads_created_for>>
vars == <<current_fixture_id, match_thread_id, last_score, posted_sub_keys,
          posted_card_keys, halftime_posted, fulltime_posted, threads_created_for,
          forum_channel_id, target_channel_id, pc, match, queue,
          tick, prev, tickLog, emittedOnce, emittedTwice, scen, deferredFor, obs, call, aborted,
          update_task, liveTasks, cancelling, resumed, delivered,
          legacy_channel_id, legacy_forum_channel_id,
          legacy_task, legacy_live, legacy_cancelling, legacy_resumed, legacy_ctl,
          legacy_pc, legacy_match, legacy_interval,
          legacy_current_match_id, legacy_last_state, legacy_match_over, legacy_thread,
          legacy_live_message, legacy_seen_events, legacy_queue, legacy_hist,
          last_espn_event_id, api_football, provider_pc, provider_snapshot, provider_fetch>>
providerVars == <<last_espn_event_id, api_football, provider_pc, provider_snapshot,
                  provider_fetch>>
taskVars == <<update_task, liveTasks, cancelling, resumed, delivered>>
legacyTrackerVars == <<legacy_current_match_id, legacy_last_state, legacy_match_over,
                       legacy_thread, legacy_live_message, legacy_seen_events>>
legacyVars == <<legacy_channel_id, legacy_forum_channel_id, legacy_task, legacy_live, legacy_cancelling, legacy_resumed, legacy_ctl,
                legacy_pc, legacy_match, legacy_interval, legacyTrackerVars, legacy_queue,
                legacy_hist>>

NoTick == [kind |-> "idle", fixture_changed |-> FALSE, policy |-> FALSE,
           dest |-> FALSE, ht_before |-> FALSE, detail_failed |-> "",
           outcome |-> "running"]
NoPrev == [score |-> None, live |-> FALSE, halftime |-> "no", ht_emitted |-> 0,
           failed |-> FALSE]

\* number of notifications of a kind in a log
RECURSIVE CountKind(_, _)
CountKind(log, kind) ==
    IF log = << >> THEN 0
    ELSE (IF Head(log).kind = kind THEN 1 ELSE 0) + CountKind(Tail(log), kind)

NoCall == [made |-> FALSE, now |-> 0, result |-> FALSE]

NoEv == Ev("", NoId, << >>)
NoAbort == [fid |-> NoId, at |-> "", ev |-> NoEv]

Off == 0 - 1    \* scen: the polls so far are not a prefix of the scenario

\* ---- MatchTracker ---------------------------------------------------------

ShouldCreateThread_Strict(created, m, now) ==
    IF m.fixture_id \in created THEN FALSE
    ELSE IF State(m) \in {"in", "post"} THEN TRUE
    ELSE IF State(m) = "pre" /\ m.starts_at # None
         THEN m.starts_at[1] - now < THREAD_CREATION_WINDOW
         ELSE FALSE

\* MatchTracker.should_create_thread
ShouldCreateThread(created, m, now) ==
    IF m.fixture_id \in created THEN FALSE
    ELSE IF State(m) \in {"in", "post"} THEN TRUE
    ELSE IF State(m) = "pre" /\ m.starts_at # None
         THEN m.starts_at[1] - now <= THREAD_CREATION_WINDOW
         ELSE FALSE

\* ---- the tick as a value ----------------------------------------------------
\* The state one tick works on, so that the straight-line code between two
\* awaits can be written as a function of it.
Cur == [cfid |-> current_fixture_id, thread |-> match_thread_id, last |-> last_score,
        subs |-> posted_sub_keys, cards |-> posted_card_keys,
        ht |-> halftime_posted, ft |-> fulltime_posted, created |-> threads_created_for,
        pc |-> pc, match |-> match, queue |-> queue,
        tick |-> tick, log |-> tickLog, once |-> emittedOnce, twice |-> emittedTwice]

Apply(s) ==
    /\ current_fixture_id' = s.cfid
    /\ match_thread_id' = s.thread
    /\ last_score' = s.last
    /\ posted_sub_keys' = s.subs
    /\ posted_card_keys' = s.cards
    /\ halftime_posted' = s.ht
    /\ fulltime_posted' = s.ft
    /\ threads_created_for' = s.created
    /\ pc' = s.pc
    /\ match' = s.match
    /\ queue' = s.queue
    /\ tick' = s.tick
    /\ tickLog' = s.log
    /\ emittedOnce' = s.once
    /\ emittedTwice' = s.twice

\* The kinds of notification this run counts over the process lifetime; of
\* goal notifications a run follows the first one it sees
Counted == IF obs = "history" THEN {"card", "sub", "halftime", "fulltime"}
           ELSE IF obs = "goals" THEN {"goal"}
           ELSE {}

\* destination.send(...) is called: the notification is emitted and the tick
\* suspends at await point at
Emit(s, e, at) ==
    [s EXCEPT !.log = Append(@, e),
              !.twice = IF e \in s.once \/ (aborted # NoAbort /\ e = aborted.ev)
                        THEN @ \cup {e} ELSE @,
              !.once = IF e.kind \in Counted /\ (obs = "goals" => s.once = {})
                       THEN @ \cup {e} ELSE @,
              !.pc = at]

LiveUpdateLoopExcept_Swallow(exc) == "continue"

LiveUpdateLoopExcept_Reraise(exc) == "raise"

\* bot.py 107-112: what the loop does with an exception that leaves the tick
LiveUpdateLoopExcept(exc) == IF exc = "CancelledError" THEN "raise" ELSE "continue"

\* the tick returns normally
Finish(s) == [s EXCEPT !.pc = "done", !.queue = << >>, !.tick.outcome = "returned"]

\* an exception (or a cancellation) leaves the tick
Raise(s) ==
    [s EXCEPT !.pc = IF LiveUpdateLoopExcept("Exception") = "continue"
                     THEN "done" ELSE "crashed",
              !.queue = << >>, !.tick.outcome = "raised"]

\* bot.py 185-188
FullTimeAlert(s, m) ==
    IF State(m) = "post" /\ ~s.ft
    THEN Emit([s EXCEPT !.ft = TRUE], Ev("fulltime", m.fixture_id, << >>), "ft_send")
    ELSE Finish(s)

HalfTimeAlert_NoFlag(s, m) ==
    IF IsHalftime(m) /\ ~s.ht
    THEN Emit(s, Ev("halftime", m.fixture_id, << >>), "ht_send")
    ELSE FullTimeAlert(s, m)

\* bot.py 180-183
HalfTimeAlert(s, m) ==
    IF IsHalftime(m) /\ ~s.ht
    THEN Emit([s EXCEPT !.ht = TRUE], Ev("halftime", m.fixture_id, << >>), "ht_send")
    ELSE FullTimeAlert(s, m)

\* bot.py 172-176: the for loop over the fetched substitutions, from entry q[1] on
RECURSIVE SubLoop(_, _, _)
SubLoop(s, m, q) ==
    IF q = << >> THEN HalfTimeAlert(s, m)
    ELSE LET key == SubDedupeKey(Head(q))
         IN  IF key \in s.subs THEN SubLoop(s, m, Tail(q))
             ELSE Emit([s EXCEPT !.subs = @ \cup {key}, !.queue = Tail(q)],
                       Ev("sub", m.fixture_id, key), "sub_send")

\* bot.py 168-171
SubAlerts(s, m) ==
    IF State(m) = "in" THEN [s EXCEPT !.pc = "subs_fetch"] ELSE HalfTimeAlert(s, m)

RECURSIVE CardLoop_NoDedupe(_, _, _)
CardLoop_NoDedupe(s, m, q) ==
    IF q = << >> THEN SubAlerts(s, m)
    ELSE LET key == CardDedupeKey(Head(q))
         IN  Emit([s EXCEPT !.cards = @ \cup {key}, !.queue = Tail(q)],
                  Ev("card", m.fixture_id, key), "card_send")

\* bot.py 160-164: the for loop over the fetched cards, from entry q[1] on
RECURSIVE CardLoop(_, _, _)
CardLoop(s, m, q) ==
    IF q = << >> THEN SubAlerts(s, m)
    ELSE LET key == CardDedupeKey(Head(q))
         IN  IF key \in s.cards THEN CardLoop(s, m, Tail(q))
             ELSE Emit([s EXCEPT !.cards = @ \cup {key}, !.queue = Tail(q)],
                       Ev("card", m.fixture_id, key), "card_send")

\* bot.py 156-159
CardAlerts(s, m) ==
    IF State(m) = "in" THEN [s EXCEPT !.pc = "cards_fetch"] ELSE SubAlerts(s, m)

GoalAlert_Always(s, m) ==
    IF State(m) = "in"
    THEN Emit([s EXCEPT !.last = Score(m)], Ev("goal", m.fixture_id, Score(m)), "goal_send")
    ELSE CardAlerts(s, m)

GoalAlert_KeepLast(s, m) ==
    IF State(m) = "in" /\ Score(m) # s.last
    THEN Emit(s, Ev("goal", m.fixture_id, Score(m)), "goal_send")
    ELSE CardAlerts(s, m)

\* bot.py 150-154
GoalAlert(s, m) ==
    IF State(m) = "in" /\ Score(m) # s.last
    THEN Emit([s EXCEPT !.last = Score(m)], Ev("goal", m.fixture_id, Score(m)), "goal_send")
    ELSE CardAlerts(s, m)

ResolveDestination_Unchecked(s, m, found) ==
    IF s.thread = NoId THEN Finish(s)
    ELSE GoalAlert([s EXCEPT !.tick.dest = found], m)

DetailFetchFailed_Raise(s, m, feed) == Raise([s EXCEPT !.tick.detail_failed = feed])

\* bot.py 158-166, 170-178: the detail fetch of a feed gives no data (the
\* provider's empty list for a failed card fetch, the RuntimeError of
\* with_retry that bot.py 165 and 177 catch) and the tick goes on
DetailFetchFailed(s, m, feed) ==
    LET s1 == [s EXCEPT !.tick.detail_failed = IF obs = "tick" THEN feed ELSE @]
    IN  IF feed = "cards" THEN SubAlerts(s1, m) ELSE HalfTimeAlert(s1, m)

\* bot.py 143-148; found: get_channel(match_thread_id) returns a channel
ResolveDestination(s, m, found) ==
    IF s.thread = NoId THEN Finish(s)
    ELSE IF ~found THEN Finish(s)
    ELSE GoalAlert([s EXCEPT !.tick.dest = TRUE], m)

ResetPerMatch_DropCreated(s, m) ==
    [s EXCEPT !.cfid = m.fixture_id, !.last = None, !.subs = {}, !.cards = {},
              !.ht = FALSE, !.ft = FALSE, !.thread = NoId, !.created = {}]

ResetPerMatch_KeepCards(s, m) ==
    [s EXCEPT !.cfid = m.fixture_id, !.last = None, !.subs = {},
              !.ht = FALSE, !.ft = FALSE, !.thread = NoId]

\* bot.py 123-130
ResetPerMatch(s, m) ==
    [s EXCEPT !.cfid = m.fixture_id, !.last = None, !.subs = {}, !.cards = {},
              !.ht = FALSE, !.ft = FALSE, !.thread = NoId]

\* tracker.py 347-387 up to the first await: forumKind / fallbackKind are what
\* bot.get_channel returns for the forum and the fallback channel id
ChannelKinds == {"none", "forum", "text"}
EnsureMatchThread(s, m, threadCached, forumKind, fallbackKind) ==
    IF s.thread # NoId /\ threadCached
    THEN Emit(s, Ev("live", m.fixture_id, << >>), "live_send")
    ELSE IF forum_channel_id # NoId /\ forumKind = "forum"
    THEN [s EXCEPT !.pc = "find_thread"]
    ELSE IF target_channel_id = NoId THEN Raise(s)
    ELSE IF fallbackKind = "none" THEN Raise(s)
    ELSE IF fallbackKind = "text"
    THEN Emit(s, Ev("prematch", m.fixture_id, << >>), "prematch_send")
    ELSE Raise(s)   \* returns None: destination.send raises AttributeError

ThreadAcquired_NoRecord(s, m, id) ==
    Emit([s EXCEPT !.thread = id], Ev("live", m.fixture_id, << >>), "live_send")

\* tracker.py 360-362, 370-373, 385-387, then bot.py 141
ThreadAcquired(s, m, id) ==
    Emit([s EXCEPT !.thread = id, !.created = @ \cup {m.fixture_id}],
         Ev("live", m.fixture_id, << >>), "live_send")

\* ---- the scenario poll sequence of the spec's testable properties ---------
\* [None, scheduled(+30h), scheduled(+20h), in_progress 0-0, in_progress 1-0,
\*  halftime 1-0, in_progress 1-1, finished 1-1], one fixture id
ScriptOK(k, m, now) ==
    /\ m # NoMatch
    /\ k > 2 => m.fixture_id = current_fixture_id
    /\ CASE k = 2 -> State(m) = "pre" /\ ~IsHalftime(m) /\ m.starts_at # None
                     /\ m.starts_at[1] - now = 30
         [] k = 3 -> State(m) = "pre" /\ ~IsHalftime(m) /\ m.starts_at # None
                     /\ m.starts_at[1] - now = 20
         [] k = 4 -> State(m) = "in" /\ ~IsHalftime(m) /\ Score(m) = <<0, 0>>
         [] k = 5 -> State(m) = "in" /\ ~IsHalftime(m) /\ Score(m) = <<1, 0>>
         [] k = 6 -> IsHalftime(m) /\ Score(m) = <<1, 0>>
         [] k = 7 -> State(m) = "in" /\ ~IsHalftime(m) /\ Score(m) = <<1, 1>>
         [] k = 8 -> State(m) = "post" /\ ~IsHalftime(m) /\ Score(m) = <<1, 1>>
         [] OTHER -> FALSE

ScenNext(m, now) ==
    IF scen = Off \/ obs # "tick" THEN Off
    ELSE IF scen = 0 THEN (IF m = NoMatch THEN 1 ELSE Off)
    ELSE IF ScriptOK(scen + 1, m, now) THEN scen + 1
    ELSE Off

\* ---- Init -------------------------------------------------------------------
NoCancelling == [tick |-> 0, outside |-> 0]
NoLegacyMatch == [id |-> NoId, state |-> "", new |-> FALSE, outcome |-> "running"]

NoSnapshot == [fixture_id |-> NoId, event_id |-> NoId]
NoFetch == [feed |-> "", event_id |-> NoId]

\* the provider is not part of the run
InitProviderOff ==
    /\ last_espn_event_id = NoId
    /\ api_football = FALSE
    /\ provider_pc = "off"
    /\ provider_snapshot = NoSnapshot
    /\ provider_fetch = NoFetch

\* nothing announced and no thread created yet
NoHist == [sending |-> << >>, ev |-> << >>, evs |-> 0, thread |-> NoId, threads |-> 0]

\* the legacy tracker has not been constructed
InitLegacyOff ==
    /\ InitProviderOff
    /\ legacy_hist = NoHist
    /\ legacy_channel_id = NoId
    /\ legacy_forum_channel_id = NoId
    /\ legacy_task = "none"
    /\ legacy_live = 0
    /\ legacy_cancelling = NoCancelling
    /\ legacy_resumed = FALSE
    /\ legacy_ctl = "none"
    /\ legacy_pc = "off"
    /\ legacy_match = NoLegacyMatch
    /\ legacy_interval = 0
    /\ legacy_current_match_id = NoId
    /\ legacy_last_state = ""
    /\ legacy_match_over = FALSE
    /\ legacy_thread = NoId
    /\ legacy_live_message = FALSE
    /\ legacy_seen_events = {}
    /\ legacy_queue = << >>

\* MatchTracker.__init__ and WhitecapsBot.__init__, with a forum and a channel
\* configured, once setup_hook has started the loop
InitBot ==
    /\ current_fixture_id = NoId
    /\ match_thread_id = NoId
    /\ last_score = None
    /\ posted_sub_keys = {}
    /\ posted_card_keys = {}
    /\ halftime_posted = FALSE
    /\ fulltime_posted = FALSE
    /\ threads_created_for = {}
    /\ forum_channel_id = ForumChannelId
    /\ target_channel_id = ChannelId
    /\ pc = "sleep"
    /\ match = NoMatch
    /\ queue = << >>
    /\ tick = NoTick
    /\ prev = NoPrev
    /\ tickLog = << >>
    /\ emittedOnce = {}
    /\ emittedTwice = {}
    /\ deferredFor = NoId
    /\ call = NoCall
    /\ aborted = NoAbort
    /\ update_task = "live"
    /\ liveTasks = 1
    /\ cancelling = NoCancelling
    /\ resumed = FALSE
    /\ delivered = "none"
    /\ InitLegacyOff

\* a run that observes single ticks
Init == InitBot /\ obs = "tick" /\ scen = 0
\* a run that observes pairs of consecutive ticks
InitPairs == InitBot /\ obs = "pairs" /\ scen = Off
\* runs that count notifications over the process lifetime
InitHistory == InitBot /\ obs = "history" /\ scen = Off
InitGoals == InitBot /\ obs = "goals" /\ scen = Off

\* ---- actions ----------------------------------------------------------------

\* bot.py 117-119: the fixture fetch fails after with_retry's attempts and the
\* RuntimeError leaves the tick
PollFails ==
    /\ pc = "sleep"
    /\ pc' = IF LiveUpdateLoopExcept("Exception") = "continue" THEN "done" ELSE "crashed"
    /\ tick' = [NoTick EXCEPT !.kind = "fail", !.outcome = "raised"]
    /\ scen' = Off
    /\ UNCHANGED <<trackerVars, forum_channel_id, target_channel_id, match, queue,
                   prev, tickLog, emittedOnce, emittedTwice, deferredFor, obs, call, aborted,
                   taskVars, legacyVars, providerVars>>

\* bot.py 117-119: the fetch returns no snapshot
PollNone ==
    /\ pc = "sleep"
    /\ pc' = "done"
    /\ tick' = [NoTick EXCEPT !.kind = "none", !.outcome = "returned"]
    /\ scen' = ScenNext(NoMatch, 0)
    /\ UNCHANGED <<trackerVars, forum_channel_id, target_channel_id, match, queue,
                   prev, tickLog, emittedOnce, emittedTwice, deferredFor, obs, call, aborted,
                   taskVars, legacyVars, providerVars>>

\* bot.py 117-148: the fetch returns snapshot m; now is the clock reading.
\* Fixture ids are numbered in the order the feed first shows them.
PollMatch ==
    /\ pc = "sleep"
    /\ \E m \in Matches : \E now \in Readings(m) :
         LET changed == current_fixture_id # m.fixture_id
             policy  == ShouldCreateThread(threads_created_for, m, now)
             t0 == [kind |-> "match", fixture_changed |-> changed, policy |-> policy,
                    dest |-> FALSE, ht_before |-> ~changed /\ halftime_posted,
                    detail_failed |-> "",
                    outcome |-> "running"]
             s0 == [Cur EXCEPT !.match = m, !.tick = t0]
             s1 == IF changed THEN ResetPerMatch(s0, m) ELSE s0
         IN  /\ current_fixture_id = NoId => m.fixture_id = 1
             /\ IF changed /\ ShouldCreateThread(s1.created, m, now)
                THEN \E forumKind \in ChannelKinds, fallbackKind \in ChannelKinds :
                        Apply(EnsureMatchThread(s1, m, FALSE, forumKind, fallbackKind))
                ELSE \E found \in BOOLEAN : Apply(ResolveDestination(s1, m, found))
             /\ scen' = ScenNext(m, now)
             /\ deferredFor' =
                  IF ~changed \/ obs # "tick" THEN deferredFor
                  ELSE IF ~policy /\ m.fixture_id \notin threads_created_for
                       THEN m.fixture_id ELSE NoId
    /\ UNCHANGED <<forum_channel_id, target_channel_id, prev, obs, call, aborted,
                   taskVars, legacyVars, providerVars>>

\* bot.py 106-114: the tick is over, the loop goes to sleep
Sleep ==
    /\ pc = "done"
    /\ pc' = "sleep"
    /\ match' = NoMatch
    /\ tick' = NoTick
    /\ tickLog' = << >>
    /\ prev' = IF obs = "pairs" /\ tick.kind = "match"
               THEN [score |-> Score(match),
                     live |-> State(match) = "in" /\ tick.dest,
                     halftime |-> IF IsHalftime(match) /\ tick.dest /\ tick.outcome = "returned"
                                  THEN (IF tick.ht_before THEN "stale" ELSE "fresh")
                                  ELSE "no",
                     ht_emitted |-> CountKind(tickLog, "halftime"),
                     failed |-> FALSE]
               ELSE IF obs = "failures"
               THEN [NoPrev EXCEPT !.failed = (tick.outcome = "raised")]
               ELSE NoPrev
    /\ scen' = IF tick.outcome = "raised" THEN Off ELSE scen
    /\ UNCHANGED <<trackerVars, forum_channel_id, target_channel_id, queue,
                   emittedOnce, emittedTwice, deferredFor, obs, call, aborted,
                   taskVars, legacyVars, providerVars>>

Frame == UNCHANGED <<forum_channel_id, target_channel_id, prev, scen, deferredFor, obs, call, aborted,
                     taskVars, legacyVars, providerVars>>

\* tracker.py 358-365: _find_existing_thread returns a thread or None
FindThreadReturns ==
    /\ pc = "find_thread"
    /\ \E existing \in BOOLEAN :
         IF existing
         THEN Apply(ThreadAcquired(Cur, match, ThreadIdOf(match.fixture_id)))
         ELSE Apply([Cur EXCEPT !.pc = "create_thread"])
    /\ Frame

\* tracker.py 365-373: forum_channel.create_thread returns the new thread
CreateThreadReturns ==
    /\ pc = "create_thread"
    /\ Apply(ThreadAcquired(Emit(Cur, Ev("prematch", match.fixture_id, << >>), pc),
                            match, ThreadIdOf(match.fixture_id)))
    /\ Frame

\* tracker.py 384-387: the pre-match embed went to the fallback channel
PrematchSendReturns ==
    /\ pc = "prematch_send"
    /\ Apply(ThreadAcquired(Cur, match, target_channel_id))
    /\ Frame

\* bot.py 141-148
LiveSendReturns ==
    /\ pc = "live_send"
    /\ \E found \in BOOLEAN : Apply(ResolveDestination(Cur, match, found))
    /\ Frame

\* bot.py 154-159
GoalSendReturns ==
    /\ pc = "goal_send"
    /\ Apply(CardAlerts(Cur, match))
    /\ Frame

\* bot.py 159-166: get_cards returns cards, or the fetch fails (the provider
\* turns a failed fetch into an empty list)
CardsFetchReturns ==
    /\ pc = "cards_fetch"
    /\ \/ \E cards \in SeqsUpTo(CardEvents(match.fixture_id), MaxPlays) :
            Apply(CardLoop(Cur, match, cards))
       \/ Apply(DetailFetchFailed(Cur, match, "cards"))
    /\ Frame

\* bot.py 164, next iteration of the loop
CardSendReturns ==
    /\ pc = "card_send"
    /\ Apply(CardLoop(Cur, match, queue))
    /\ Frame

\* bot.py 171-178: get_substitutions returns subs, or with_retry raises the
\* RuntimeError that line 177 catches
SubsFetchReturns ==
    /\ pc = "subs_fetch"
    /\ \/ \E subs \in SeqsUpTo(SubEvents(match.fixture_id), MaxPlays) :
            Apply(SubLoop(Cur, match, subs))
       \/ Apply(DetailFetchFailed(Cur, match, "subs"))
    /\ Frame

\* bot.py 176, next iteration of the loop
SubSendReturns ==
    /\ pc = "sub_send"
    /\ Apply(SubLoop(Cur, match, queue))
    /\ Frame

\* bot.py 183-188
HalftimeSendReturns ==
    /\ pc = "ht_send"
    /\ Apply(FullTimeAlert(Cur, match))
    /\ Frame

\* bot.py 188
FulltimeSendReturns ==
    /\ pc = "ft_send"
    /\ Apply(Finish(Cur))
    /\ Frame

\* the awaits of the alert sends of bot.py 154, 164, 176, 183, 188
SendAwaits == {"goal_send", "card_send", "sub_send", "ht_send", "ft_send"}

\* the await points of a tick after its fixture fetch
TickAwaits == {"find_thread", "create_thread", "prematch_send", "live_send", "goal_send",
               "cards_fetch", "card_send", "subs_fetch", "sub_send", "ht_send", "ft_send"}

\* The awaited call raises (a send or a thread creation the platform
\* rejects): the tick is left at this await point and bot.py 111-112 logs the
\* exception.  A tracker whose task is cancelled at this await point and
\* started again is in the same state.
Abort ==
    /\ pc \in TickAwaits
    /\ Apply(Raise(Cur))
    /\ aborted' = IF obs = "aborts" /\ aborted = NoAbort
                  THEN [fid |-> match.fixture_id, at |-> pc,
                        ev |-> IF pc \in SendAwaits THEN tickLog[Len(tickLog)] ELSE NoEv]
                  ELSE aborted
    /\ UNCHANGED <<forum_channel_id, target_channel_id, prev, scen, deferredFor, obs, call,
                   taskVars, legacyVars, providerVars>>

Next ==
    \/ PollFails
    \/ PollNone
    \/ PollMatch
    \/ FindThreadReturns
    \/ CreateThreadReturns
    \/ PrematchSendReturns
    \/ LiveSendReturns
    \/ GoalSendReturns
    \/ CardsFetchReturns
    \/ CardSendReturns
    \/ SubsFetchReturns
    \/ SubSendReturns
    \/ HalftimeSendReturns
    \/ FulltimeSendReturns
    \/ Abort
    \/ Sleep

Spec == Init /\ [][Next]_vars
SpecPairs == InitPairs /\ [][Next]_vars
SpecHistory == InitHistory /\ [][Next]_vars
SpecGoals == InitGoals /\ [][Next]_vars
\* a run that follows the first await that raises
InitAborts == InitBot /\ obs = "aborts" /\ scen = Off
SpecAborts == InitAborts /\ [][Next]_vars

\* ---- the loop task and the commands that start and stop it ----------------------

TaskRunning_Never(h) == FALSE

\* bot.py 40, 49: self.update_task and not self.update_task.done()
TaskRunning(h) == h # "none" /\ h # "done"

\* WhitecapsBot.__init__ before setup_hook, with a forum and a channel
\* configured or neither
InitUnstarted ==
    /\ current_fixture_id = NoId
    /\ match_thread_id = NoId
    /\ last_score = None
    /\ posted_sub_keys = {}
    /\ posted_card_keys = {}
    /\ halftime_posted = FALSE
    /\ fulltime_posted = FALSE
    /\ threads_created_for = {}
    /\ \/ forum_channel_id = ForumChannelId /\ target_channel_id = ChannelId
       \/ forum_channel_id = NoId /\ target_channel_id = NoId
    /\ pc = "unstarted"
    /\ match = NoMatch
    /\ queue = << >>
    /\ tick = NoTick
    /\ prev = NoPrev
    /\ tickLog = << >>
    /\ emittedOnce = {}
    /\ emittedTwice = {}
    /\ scen = Off
    /\ deferredFor = NoId
    /\ call = NoCall
    /\ aborted = NoAbort
    /\ update_task = "none"
    /\ liveTasks = 0
    /\ cancelling = NoCancelling
    /\ resumed = FALSE
    /\ delivered = "none"
    /\ InitLegacyOff

\* a run that observes the loop task and the commands
InitTasks == InitUnstarted /\ obs = "tasks"

TaskFrame == UNCHANGED <<trackerVars, forum_channel_id, prev, emittedOnce, emittedTwice,
                         scen, deferredFor, obs, call, aborted, legacyVars, providerVars>>

\* asyncio.create_task(self._live_update_loop()): the new task will run from
\* the top of the loop
NewLoopTask ==
    /\ update_task' = "live"
    /\ liveTasks' = liveTasks + 1
    /\ delivered' = "none"
    /\ pc' = "ready"
    /\ match' = NoMatch
    /\ queue' = << >>
    /\ tick' = NoTick
    /\ tickLog' = << >>

\* bot.py 96-97, at the end of setup_hook
SetupHook ==
    /\ pc = "unstarted"
    /\ IF target_channel_id # NoId \/ forum_channel_id # NoId
       THEN NewLoopTask
       ELSE /\ pc' = "notask"
            /\ UNCHANGED <<update_task, liveTasks, delivered, match, queue, tick, tickLog>>
    /\ UNCHANGED <<target_channel_id, cancelling, resumed>>
    /\ TaskFrame

\* bot.py 105-108: wait_until_ready returns, the bot is not closed, and the
\* first tick awaits its fixture fetch
LoopReady ==
    /\ pc = "ready"
    /\ pc' = "sleep"
    /\ UNCHANGED <<target_channel_id, match, queue, tick, tickLog, taskVars>>
    /\ TaskFrame

\* a command handler runs while the loop task, if any, is suspended at an await
CommandPossible == pc \notin {"off", "unstarted", "done", "crashed"}

\* bot.py 38-45, up to the handler's await
WhitecapsLive ==
    /\ CommandPossible
    /\ \E ch \in CommandChannels : target_channel_id' = ch
    /\ IF TaskRunning(update_task)
       THEN UNCHANGED <<update_task, liveTasks, delivered, pc, match, queue, tick, tickLog>>
       ELSE NewLoopTask
    /\ UNCHANGED <<cancelling, resumed>>
    /\ TaskFrame

\* where a task suspended at pc takes a cancellation: inside the try of
\* bot.py 107-112 or outside it (pc "sleep" stands for asyncio.sleep and for
\* the fixture fetch that follows it)
CancelPoints(at) ==
    IF at = "ready" THEN {"outside"}
    ELSE IF at = "sleep" THEN {"outside", "tick"}
    ELSE {"tick"}

\* bot.py 48-52, up to the handler's await
WhitecapsStop ==
    /\ CommandPossible
    /\ IF TaskRunning(update_task)
       THEN /\ cancelling.tick + cancelling.outside < MaxPending
            /\ \E where \in CancelPoints(pc) :
                  cancelling' = [cancelling EXCEPT ![where] = @ + 1]
            /\ update_task' = "none"
            /\ liveTasks' = liveTasks - 1
            /\ pc' = "notask"
            /\ match' = NoMatch
            /\ queue' = << >>
            /\ tick' = NoTick
            /\ tickLog' = << >>
       ELSE UNCHANGED <<update_task, liveTasks, cancelling, pc, match, queue, tick, tickLog>>
    /\ UNCHANGED <<target_channel_id, resumed, delivered>>
    /\ TaskFrame

\* The event loop resumes a cancelled task: CancelledError is raised at the
\* await it is suspended at.  Inside a tick it passes through the handlers of
\* bot.py 109-112; no handler is around the sleep.
CancelDelivered ==
    /\ \E where \in {"tick", "outside"} :
          /\ cancelling[where] > 0
          /\ cancelling' = [cancelling EXCEPT ![where] = @ - 1]
          /\ delivered' = IF obs = "loops" THEN where ELSE delivered
          /\ IF where = "tick" /\ LiveUpdateLoopExcept("CancelledError") = "continue"
             THEN resumed' = TRUE /\ liveTasks' = liveTasks + 1
             ELSE UNCHANGED <<resumed, liveTasks>>
    /\ UNCHANGED <<target_channel_id, update_task, pc, match, queue, tick, tickLog>>
    /\ TaskFrame

NextTasks ==
    \/ Next
    \/ SetupHook
    \/ LoopReady
    \/ WhitecapsLive
    \/ WhitecapsStop
    \/ CancelDelivered

SpecTasks == InitTasks /\ [][NextTasks]_vars

\* ---- the legacy tracker (src/tracker.py) and its bot (src/bot.py) ----------------
\* One _tick of the legacy MatchTracker is a coroutine like _update_once:
\* legacy_pc names the await point the _loop task is suspended at ("sleep"
\* is the asyncio.sleep between two ticks and the scoreboard fetch after it).

MaxLoops == 2       \* bound: _loop tasks alive at once

POLL_INTERVAL_LIVE == 30
POLL_INTERVAL_PRE  == 60
POLL_INTERVAL_IDLE == 300

LegacyStates == {"pre", "in", "post"}

\* key events of a match summary; the type decides what is announced
LegacyEventTypes == {"goal", "substitution", "yellow card"}
LegacyEvents == [type : LegacyEventTypes, player : Players]

\* tracker.py 30-35, on the event types above
LegacyIsGoal(e) == e.type = "goal"
LegacyIsSubstitution(e) == e.type = "substitution"

\* tracker.py 123-127: clock, team and text follow from type and player here
LegacyEventKey(e) == <<e.type, e.player>>

LegacyLoopExcept_Reraise(exc) == "raise"

LegacyLoopExcept_Swallow(exc) == "idle"

\* tracker.py 275-281: what the loop does with an exception that leaves the tick
LegacyLoopExcept(exc) == IF exc = "CancelledError" THEN "raise" ELSE "idle"

\* the state one legacy tick works on
LegacyCur == [cmid |-> legacy_current_match_id, last_state |-> legacy_last_state,
              over |-> legacy_match_over, thread |-> legacy_thread,
              msg |-> legacy_live_message, seen |-> legacy_seen_events,
              pc |-> legacy_pc, match |-> legacy_match, queue |-> legacy_queue,
              interval |-> legacy_interval]

LegacyApply(s) ==
    /\ legacy_current_match_id' = s.cmid
    /\ legacy_last_state' = s.last_state
    /\ legacy_match_over' = s.over
    /\ legacy_thread' = s.thread
    /\ legacy_live_message' = s.msg
    /\ legacy_seen_events' = s.seen
    /\ legacy_pc' = s.pc
    /\ legacy_match' = s.match
    /\ legacy_queue' = s.queue
    /\ legacy_interval' = s.interval

\* tracker.py 115-121
LegacyResetState(s) ==
    [s EXCEPT !.msg = FALSE, !.cmid = NoId, !.seen = {}, !.over = FALSE,
              !.thread = NoId, !.last_state = ""]

\* return interval: tracker.py 276 binds it and 283 sleeps for it
LegacyReturn(s, interval) ==
    [s EXCEPT !.pc = "done", !.queue = << >>, !.match.outcome = "returned",
              !.interval = interval]

\* an exception other than a cancellation leaves the tick: tracker.py 279-281
LegacyRaise(s) ==
    IF LegacyLoopExcept("Exception") = "idle"
    THEN [s EXCEPT !.pc = "done", !.queue = << >>, !.match.outcome = "raised",
                   !.interval = POLL_INTERVAL_IDLE]
    ELSE [s EXCEPT !.pc = "crashed", !.queue = << >>, !.match.outcome = "raised"]

\* tracker.py 108-112: is there a channel to post in; found is what
\* bot.get_channel gives for the fallback channel
LegacyTargetChannel(s, found) ==
    s.thread # NoId \/ (legacy_channel_id # NoId /\ found)

\* tracker.py 164-184, up to its await
LegacyPostOrUpdateLive(s, found) ==
    IF ~LegacyTargetChannel(s, found) THEN LegacyReturn(s, POLL_INTERVAL_LIVE)
    ELSE [s EXCEPT !.pc = "live_post", !.queue = << >>]

\* tracker.py 192-213: the loop over the key events, up to the next send;
\* then tracker.py 351-352
RECURSIVE LegacyEventLoop(_, _, _)
LegacyEventLoop(s, q, found) ==
    IF q = << >> THEN LegacyPostOrUpdateLive(s, found)
    ELSE LET e == Head(q)
             key == LegacyEventKey(e)
         IN  IF key \in s.seen THEN LegacyEventLoop(s, Tail(q), found)
             ELSE LET s1 == [s EXCEPT !.seen = @ \cup {key}]
                  IN  IF LegacyIsGoal(e) \/ LegacyIsSubstitution(e)
                      THEN [s1 EXCEPT !.queue = Tail(q), !.pc = "event_send"]
                      ELSE LegacyEventLoop(s1, Tail(q), found)

\* tracker.py 186-190, 350-352
LegacyHandleNewEvents(s, q, found) ==
    IF ~LegacyTargetChannel(s, found) THEN LegacyPostOrUpdateLive(s, found)
    ELSE LegacyEventLoop(s, q, found)

LegacyAfterLive_Live(s) ==
    IF s.match.state = "post" /\ ~s.over
    THEN [s EXCEPT !.over = TRUE, !.pc = "final_summary"]
    ELSE LegacyReturn(s, POLL_INTERVAL_LIVE)

\* tracker.py 354-361
LegacyAfterLive(s) ==
    IF s.match.state = "post" /\ ~s.over
    THEN [s EXCEPT !.over = TRUE, !.pc = "final_summary"]
    ELSE LegacyReturn(s, POLL_INTERVAL_IDLE)

\* tracker.py 340-347; forumOK: bot.get_channel gives a ForumChannel
LegacyLive(s, found, forumOK) ==
    IF s.match.state = "in"
    THEN IF s.thread = NoId /\ legacy_forum_channel_id # NoId /\ forumOK
         THEN [s EXCEPT !.pc = "late_thread"]
         ELSE [s EXCEPT !.pc = "summary"]
    ELSE LegacyAfterLive(s)

\* tracker.py 331-338, up to the await of the announcement
LegacyStateChange(s, found, forumOK) ==
    IF s.last_state # s.match.state
    THEN IF s.match.state \in {"in", "post"} /\ LegacyTargetChannel(s, found)
         THEN [s EXCEPT !.pc = "announce_send"]
         ELSE LegacyLive([s EXCEPT !.last_state = s.match.state], found, forumOK)
    ELSE LegacyLive(s, found, forumOK)

\* tracker.py 313-329, after _create_forum_thread gave the thread
LegacyNewMatch(s, found, forumOK) ==
    IF s.match.state = "pre"
    THEN IF s.thread = NoId /\ legacy_channel_id # NoId /\ found
         THEN [s EXCEPT !.pc = "prematch_send"]
         ELSE LegacyReturn(s, POLL_INTERVAL_PRE)
    ELSE IF LegacyTargetChannel(s, found)
         THEN [s EXCEPT !.pc = "announce_send"]
         ELSE LegacyStateChange(s, found, forumOK)

\* the legacy bot's process has started; on_ready has not been delivered
InitLegacyAs(mode) ==
    /\ current_fixture_id = NoId
    /\ match_thread_id = NoId
    /\ last_score = None
    /\ posted_sub_keys = {}
    /\ posted_card_keys = {}
    /\ halftime_posted = FALSE
    /\ fulltime_posted = FALSE
    /\ threads_created_for = {}
    /\ forum_channel_id = NoId
    /\ target_channel_id = NoId
    /\ pc = "off"
    /\ match = NoMatch
    /\ queue = << >>
    /\ tick = NoTick
    /\ prev = NoPrev
    /\ tickLog = << >>
    /\ emittedOnce = {}
    /\ emittedTwice = {}
    /\ scen = Off
    /\ deferredFor = NoId
    /\ obs = mode
    /\ call = NoCall
    /\ aborted = NoAbort
    /\ update_task = "none"
    /\ liveTasks = 0
    /\ cancelling = NoCancelling
    /\ resumed = FALSE
    /\ delivered = "none"
    /\ InitProviderOff
    /\ \E c \in {<<ForumChannelId, ChannelId>>, <<NoId, ChannelId>>, <<NoId, NoId>>} :
          legacy_forum_channel_id = c[1] /\ legacy_channel_id = c[2]
    /\ legacy_task = "none"
    /\ legacy_live = 0
    /\ legacy_cancelling = NoCancelling
    /\ legacy_resumed = FALSE
    /\ legacy_ctl = "none"
    /\ legacy_pc = "unready"
    /\ legacy_match = NoLegacyMatch
    /\ legacy_interval = 0
    /\ legacy_current_match_id = NoId
    /\ legacy_last_state = ""
    /\ legacy_match_over = FALSE
    /\ legacy_thread = NoId
    /\ legacy_live_message = FALSE
    /\ legacy_seen_events = {}
    /\ legacy_queue = << >>
    /\ legacy_hist = NoHist

InitLegacy == InitLegacyAs("legacy")

BotFrame == UNCHANGED <<trackerVars, forum_channel_id, target_channel_id, pc, match, queue,
                        tick, prev, tickLog, emittedOnce, emittedTwice, scen, deferredFor,
                        obs, call, aborted, taskVars, providerVars>>

\* what a legacy tick leaves alone
LegacyTickFrame ==
    /\ UNCHANGED <<legacy_channel_id, legacy_forum_channel_id, legacy_task, legacy_live,
                   legacy_cancelling, legacy_resumed, legacy_ctl>>
    /\ BotFrame

LegacyFrame == LegacyTickFrame /\ UNCHANGED legacy_hist

\* the observer of announcements, or the one of threads, is on
LegacyEventHistory == obs = "legacy_events"
LegacyThreadHistory == obs = "legacy_threads"

\* tracker.py 192-199: the key of the first event of q the loop announces
RECURSIVE LegacyNextSent(_, _)
LegacyNextSent(seen, q) ==
    IF q = << >> THEN << >>
    ELSE LET e == Head(q)
         IN  IF LegacyEventKey(e) \notin seen /\ (LegacyIsGoal(e) \/ LegacyIsSubstitution(e))
             THEN LegacyEventKey(e)
             ELSE LegacyNextSent(seen, Tail(q))

\* the tick goes on to state s from the key events q: the send it awaits
HistSending(h, s, seen, q) ==
    IF ~LegacyEventHistory THEN h
    ELSE [h EXCEPT !.sending = IF s.pc = "event_send" THEN LegacyNextSent(seen, q)
                                ELSE << >>]

\* tracker.py 201-202, 211-212: channel.send returned (ok) for match mid
HistAnnounced(h, mid, ok) ==
    IF ~LegacyEventHistory \/ ~ok \/ h.sending = << >> THEN h
    ELSE IF h.ev = << >> THEN [h EXCEPT !.ev = <<mid, h.sending>>, !.evs = 1]
    ELSE IF h.ev = <<mid, h.sending>> /\ h.evs < 2 THEN [h EXCEPT !.evs = @ + 1]
    ELSE h

\* tracker.py 147-159: forum.create_thread returned a thread (ok) for match mid
HistThread(h, mid, ok) ==
    IF ~LegacyThreadHistory \/ ~ok THEN h
    ELSE IF h.thread = NoId THEN [h EXCEPT !.thread = mid, !.threads = 1]
    ELSE IF h.thread = mid /\ h.threads < 2 THEN [h EXCEPT !.threads = @ + 1]
    ELSE h

\* asyncio.create_task(self._loop()): tracker.py 92
LegacyNewLoopTask ==
    /\ legacy_task' = "live"
    /\ legacy_live' = legacy_live + 1
    /\ legacy_pc' = "ready"
    /\ legacy_match' = NoLegacyMatch
    /\ legacy_queue' = << >>
    /\ legacy_interval' = 0

\* an event handler or a caller of the control API runs while the loop
\* task, if any, is suspended at an await
LegacyEventPossible == legacy_pc \notin {"off", "done", "crashed"}

\* src/bot.py 73-86: a new MatchTracker replaces the one the global refers to
\* and is started; the loop task of the old one is left as it is
OnReady ==
    /\ LegacyEventPossible
    /\ legacy_live < MaxLoops
    /\ IF legacy_channel_id # NoId \/ legacy_forum_channel_id # NoId
       THEN /\ LegacyNewLoopTask
            /\ legacy_cancelling' = NoCancelling
            /\ legacy_ctl' = "none"
            /\ legacy_current_match_id' = NoId
            /\ legacy_last_state' = ""
            /\ legacy_match_over' = FALSE
            /\ legacy_thread' = NoId
            /\ legacy_live_message' = FALSE
            /\ legacy_seen_events' = {}
       ELSE /\ legacy_pc' = "notracker"
            /\ UNCHANGED <<legacy_task, legacy_live, legacy_match, legacy_queue,
                           legacy_interval, legacy_cancelling, legacy_ctl,
                           legacyTrackerVars>>
    /\ legacy_hist' = [legacy_hist EXCEPT !.sending = << >>]
    /\ UNCHANGED <<legacy_channel_id, legacy_forum_channel_id, legacy_resumed>>
    /\ BotFrame

\* a tracker has been constructed
LegacyTracker == legacy_pc \notin {"off", "unready", "notracker"}

\* tracker.py 90-93
LegacyStart ==
    /\ LegacyEventPossible /\ LegacyTracker
    /\ IF legacy_task = "none" \/ legacy_task = "done"
       THEN legacy_live < MaxLoops /\ LegacyNewLoopTask
       ELSE UNCHANGED <<legacy_task, legacy_live, legacy_pc, legacy_match, legacy_queue,
                        legacy_interval>>
    /\ legacy_ctl' = IF legacy_ctl = "stopped" THEN "restarted" ELSE legacy_ctl
    /\ UNCHANGED <<legacy_channel_id, legacy_forum_channel_id, legacy_cancelling,
                   legacy_resumed, legacyTrackerVars, legacy_hist>>
    /\ BotFrame

\* where a _loop task suspended at at takes a cancellation: inside the try of
\* tracker.py 275-281 or outside it
LegacyCancelPoints(at) ==
    IF at = "ready" THEN {"outside"}
    ELSE IF at = "sleep" THEN {"outside", "tick"}
    ELSE {"tick"}

\* tracker.py 95-98
LegacyStop ==
    /\ LegacyEventPossible /\ LegacyTracker
    /\ IF legacy_task = "live"
       THEN /\ \E where \in LegacyCancelPoints(legacy_pc) :
                  legacy_cancelling' = [legacy_cancelling EXCEPT ![where] = @ + 1]
            /\ legacy_task' = "cancelling"
            /\ legacy_live' = legacy_live - 1
            /\ legacy_pc' = "notask"
            /\ legacy_match' = NoLegacyMatch
            /\ legacy_queue' = << >>
            /\ legacy_interval' = 0
       ELSE UNCHANGED <<legacy_task, legacy_live, legacy_cancelling, legacy_pc,
                        legacy_match, legacy_queue, legacy_interval>>
    /\ legacy_ctl' = "stopped"
    /\ legacy_hist' = [legacy_hist EXCEPT !.sending = << >>]
    /\ UNCHANGED <<legacy_channel_id, legacy_forum_channel_id, legacy_resumed,
                   legacyTrackerVars>>
    /\ BotFrame

\* The event loop resumes the cancelled task: CancelledError is raised at
\* the await it is suspended at and, inside a tick, passes through the
\* handlers of tracker.py 277-281; the task is done when it leaves _loop.
LegacyCancelDelivered ==
    /\ \E where \in {"tick", "outside"} :
          /\ legacy_cancelling[where] > 0
          /\ legacy_cancelling' = [legacy_cancelling EXCEPT ![where] = @ - 1]
          /\ IF where = "tick" /\ LegacyLoopExcept("CancelledError") = "idle"
             THEN /\ legacy_resumed' = TRUE
                  /\ legacy_live' = legacy_live + 1
                  /\ legacy_task' = "live"
             ELSE /\ legacy_task' = "done" \* reached through legacy_task = "cancelling" only
                  /\ UNCHANGED <<legacy_resumed, legacy_live>>
    /\ UNCHANGED <<legacy_channel_id, legacy_forum_channel_id, legacy_ctl, legacy_pc,
                   legacy_match, legacy_queue, legacy_interval, legacyTrackerVars,
                   legacy_hist>>
    /\ BotFrame

\* tracker.py 270-276: wait_until_ready returns, the session is opened and
\* the first tick awaits the scoreboard
LegacyLoopReady ==
    /\ legacy_pc = "ready"
    /\ legacy_pc' = "sleep"
    /\ UNCHANGED <<legacy_match, legacy_queue, legacy_interval, legacyTrackerVars>>
    /\ LegacyFrame

\* tracker.py 289: the scoreboard payload is one get_scoreboard cannot parse
LegacyScoreboardRaises ==
    /\ legacy_pc = "sleep"
    /\ LegacyApply(LegacyRaise([LegacyCur EXCEPT !.match = NoLegacyMatch]))
    /\ LegacyFrame

\* tracker.py 289-297: no match on the scoreboard
LegacyScoreboardEmpty ==
    /\ legacy_pc = "sleep"
    /\ LET s0 == [LegacyCur EXCEPT !.match = NoLegacyMatch]
           s1 == IF s0.cmid # NoId THEN LegacyResetState(s0) ELSE s0
       IN  LegacyApply(LegacyReturn(s1, POLL_INTERVAL_IDLE))
    /\ LegacyFrame

\* tracker.py 289-347: the scoreboard's first match has this id and state
LegacyScoreboardMatch ==
    /\ legacy_pc = "sleep"
    /\ \E id \in FixtureIds, state \in LegacyStates, found \in BOOLEAN, forumOK \in BOOLEAN :
         LET new == id # legacy_current_match_id
             s0 == [LegacyCur EXCEPT !.match = [id |-> id, state |-> state, new |-> new,
                                                 outcome |-> "running"]]
         IN  IF new
             THEN LET s1 == [LegacyResetState(s0) EXCEPT !.cmid = id, !.last_state = state]
                  IN  IF legacy_forum_channel_id # NoId /\ forumOK
                      THEN LegacyApply([s1 EXCEPT !.pc = "create_thread"])
                      ELSE LegacyApply(LegacyNewMatch(s1, found, forumOK))
             ELSE LegacyApply(LegacyStateChange(s0, found, forumOK))
    /\ LegacyFrame

\* tracker.py 147-162, 311: forum.create_thread returns the thread or is
\* refused with an HTTPException
LegacyCreateThreadReturns ==
    /\ legacy_pc = "create_thread"
    /\ \E ok \in BOOLEAN, found \in BOOLEAN, forumOK \in BOOLEAN :
         LET s1 == [LegacyCur EXCEPT !.thread = IF ok THEN ThreadIdOf(legacy_match.id)
                                                ELSE NoId]
         IN  /\ LegacyApply(LegacyNewMatch(s1, found, forumOK))
             /\ legacy_hist' = HistThread(legacy_hist, legacy_match.id, ok)
    /\ LegacyTickFrame

\* tracker.py 215-242, 313-316, 333-338: the kickoff or final announcement
\* is sent or refused with an HTTPException
LegacyAnnounceSendReturns ==
    /\ legacy_pc = "announce_send"
    /\ \E found \in BOOLEAN, forumOK \in BOOLEAN :
         LegacyApply(LegacyLive([LegacyCur EXCEPT !.last_state = legacy_match.state],
                                found, forumOK))
    /\ LegacyFrame

\* tracker.py 324-329
LegacyPrematchSendReturns ==
    /\ legacy_pc = "prematch_send"
    /\ LegacyApply(LegacyReturn(LegacyCur, POLL_INTERVAL_PRE))
    /\ LegacyFrame

\* tracker.py 344-345
LegacyLateThreadReturns ==
    /\ legacy_pc = "late_thread"
    /\ \E ok \in BOOLEAN :
         /\ LegacyApply([LegacyCur EXCEPT !.thread = IF ok THEN ThreadIdOf(legacy_match.id)
                                                    ELSE NoId,
                                          !.pc = "summary"])
         /\ legacy_hist' = HistThread(legacy_hist, legacy_match.id, ok)
    /\ LegacyTickFrame

\* tracker.py 347-352: get_match_summary returns the key events (none when
\* the fetch fails)
LegacySummaryReturns ==
    /\ legacy_pc = "summary"
    /\ \E q \in SeqsUpTo(LegacyEvents, MaxPlays), found \in BOOLEAN :
         LET s == LegacyHandleNewEvents(LegacyCur, q, found)
         IN  /\ LegacyApply(s)
             /\ legacy_hist' = HistSending(legacy_hist, s, legacy_seen_events, q)
    /\ LegacyTickFrame

\* tracker.py 199-213, 351-352: the announcement of a key event is sent or
\* refused with an HTTPException
LegacyEventSendReturns ==
    /\ legacy_pc = "event_send"
    /\ \E found \in BOOLEAN, ok \in BOOLEAN :
         LET s == LegacyEventLoop(LegacyCur, legacy_queue, found)
         IN  /\ LegacyApply(s)
             /\ legacy_hist' = HistSending(HistAnnounced(legacy_hist, legacy_match.id, ok),
                                           s, legacy_seen_events, legacy_queue)
    /\ LegacyTickFrame

\* tracker.py 173-184, 352: the live embed is sent or edited, or the call is
\* refused with an HTTPException
LegacyLivePostReturns ==
    /\ legacy_pc = "live_post"
    /\ \E ok \in BOOLEAN :
         LegacyApply(LegacyReturn([LegacyCur EXCEPT !.msg = @ \/ ok], POLL_INTERVAL_LIVE))
    /\ LegacyFrame

\* tracker.py 244-263, 357-359: the summary arrives and _post_final runs up
\* to its await
LegacyFinalSummaryReturns ==
    /\ legacy_pc = "final_summary"
    /\ \E found \in BOOLEAN :
         IF LegacyTargetChannel(LegacyCur, found)
         THEN LegacyApply([LegacyCur EXCEPT !.pc = "final_post"])
         ELSE LegacyApply(LegacyReturn(LegacyCur, POLL_INTERVAL_IDLE))
    /\ LegacyFrame

\* tracker.py 253-263, 359
LegacyFinalPostReturns ==
    /\ legacy_pc = "final_post"
    /\ LegacyApply(LegacyReturn(LegacyCur, POLL_INTERVAL_IDLE))
    /\ LegacyFrame

\* the await points of a legacy tick after its scoreboard fetch
LegacyTickAwaits == {"create_thread", "announce_send", "prematch_send", "late_thread",
                     "summary", "event_send", "live_post", "final_summary", "final_post"}

\* The awaited call raises an exception the helpers do not catch (anything
\* but discord.HTTPException; a summary payload that cannot be parsed)
LegacyAbort ==
    /\ legacy_pc \in LegacyTickAwaits
    /\ LegacyApply(LegacyRaise(LegacyCur))
    /\ legacy_hist' = [legacy_hist EXCEPT !.sending = << >>]
    /\ LegacyTickFrame

\* tracker.py 283: the tick is over, the loop sleeps for the interval
LegacySleep ==
    /\ legacy_pc = "done"
    /\ legacy_pc' = "sleep"
    /\ legacy_match' = NoLegacyMatch
    /\ UNCHANGED <<legacy_queue, legacy_interval, legacyTrackerVars>>
    /\ LegacyFrame

NextLegacy ==
    \/ OnReady
    \/ LegacyStart
    \/ LegacyStop
    \/ LegacyCancelDelivered
    \/ LegacyLoopReady
    \/ LegacyScoreboardRaises
    \/ LegacyScoreboardEmpty
    \/ LegacyScoreboardMatch
    \/ LegacyCreateThreadReturns
    \/ LegacyAnnounceSendReturns
    \/ LegacyPrematchSendReturns
    \/ LegacyLateThreadReturns
    \/ LegacySummaryReturns
    \/ LegacyEventSendReturns
    \/ LegacyLivePostReturns
    \/ LegacyFinalSummaryReturns
    \/ LegacyFinalPostReturns
    \/ LegacyAbort
    \/ LegacySleep

SpecLegacy == InitLegacy /\ [][NextLegacy]_vars

\* the legacy program, observed for what it announced since the process
\* started
InitLegacyEvents == InitLegacyAs("legacy_events")
SpecLegacyEvents == InitLegacyEvents /\ [][NextLegacy]_vars

\* the legacy program, observed for the forum threads it created since the
\* process started
InitLegacyThreads == InitLegacyAs("legacy_threads")
SpecLegacyThreads == InitLegacyThreads /\ [][NextLegacy]_vars

\* ---- both programs' loops ----------------------------------------------------------
\* a run of either program that observes consecutive failing ticks
InitFailures == (InitBot /\ obs = "failures" /\ scen = Off) \/ InitLegacy
SpecFailures == InitFailures /\ [][Next \/ NextLegacy]_vars

\* a run of either program, with its commands, that observes where
\* cancellations are delivered
InitLoops == (InitUnstarted /\ obs = "loops") \/ InitLegacy
SpecLoops == InitLoops /\ [][NextTasks \/ NextLegacy]_vars

\* ---- should_create_thread called on its own ------------------------------------
\* every status code of apifootball.py 13-15, the ESPN state codes and an
\* unknown code
PolicyCodes == PRE_MATCH_CODES \cup IN_MATCH_CODES \cup FINAL_CODES
               \cup {"PRE", "IN", "POST", ""}
PolicyStartTimes == {None, <<0>>, <<20>>, <<30>>}
PolicyClock == {0, 6, 10}
PolicyMatches ==
    { [fixture_id |-> f, home_goals |-> 0, away_goals |-> 0,
       status |-> <<c, "">>, starts_at |-> t] :
        f \in FixtureIds, c \in PolicyCodes, t \in PolicyStartTimes }

\* a tracker that has created threads for any set of fixtures, and any snapshot
InitPolicy ==
    /\ current_fixture_id = NoId
    /\ match_thread_id = NoId
    /\ last_score = None
    /\ posted_sub_keys = {}
    /\ posted_card_keys = {}
    /\ halftime_posted = FALSE
    /\ fulltime_posted = FALSE
    /\ threads_created_for \in SUBSET FixtureIds
    /\ forum_channel_id = ForumChannelId
    /\ target_channel_id = ChannelId
    /\ pc = "policy"
    /\ match \in PolicyMatches
    /\ queue = << >>
    /\ tick = NoTick
    /\ prev = NoPrev
    /\ tickLog = << >>
    /\ emittedOnce = {}
    /\ emittedTwice = {}
    /\ scen = Off
    /\ deferredFor = NoId
    /\ obs = "policy"
    /\ call = NoCall
    /\ aborted = NoAbort
    /\ update_task = "none"
    /\ liveTasks = 0
    /\ cancelling = NoCancelling
    /\ resumed = FALSE
    /\ delivered = "none"
    /\ InitLegacyOff

\* tracker.py 303-321
CallShouldCreateThread ==
    /\ pc = "policy"
    /\ \E now \in PolicyClock :
         call' = [made |-> TRUE, now |-> now,
                  result |-> ShouldCreateThread(threads_created_for, match, now)]
    /\ UNCHANGED <<trackerVars, forum_channel_id, target_channel_id, pc, match, queue,
                   tick, prev, tickLog, emittedOnce, emittedTwice, scen, deferredFor, obs,
                   aborted, taskVars, legacyVars, providerVars>>

NextPolicy == CallShouldCreateThread

SpecPolicy == InitPolicy /\ [][NextPolicy]_vars

\* ---- ensure_match_thread called on its own ----------------------------------------
\* a tracker right after the reset of a fixture change (bot.py 123-130), with
\* a forum and a channel configured or a channel only; every call is for
\* the same match
InitEnsure ==
    /\ current_fixture_id \in FixtureIds
    /\ match_thread_id = NoId
    /\ last_score = None
    /\ posted_sub_keys = {}
    /\ posted_card_keys = {}
    /\ halftime_posted = FALSE
    /\ fulltime_posted = FALSE
    /\ threads_created_for = {}
    /\ \/ forum_channel_id = ForumChannelId /\ target_channel_id = ChannelId
       \/ forum_channel_id = NoId /\ target_channel_id = ChannelId
    /\ pc = "caller"
    /\ match \in {m \in Matches : m.fixture_id = current_fixture_id /\ m.status[1] = "1H"}
    /\ queue = << >>
    /\ tick = NoTick
    /\ prev = NoPrev
    /\ tickLog = << >>
    /\ emittedOnce = {}
    /\ emittedTwice = {}
    /\ scen = Off
    /\ deferredFor = NoId
    /\ obs = "ensure"
    /\ call = NoCall
    /\ aborted = NoAbort
    /\ update_task = "none"
    /\ liveTasks = 0
    /\ cancelling = NoCancelling
    /\ resumed = FALSE
    /\ delivered = "none"
    /\ InitLegacyOff

\* tracker.py 340-387 up to the first await, called as bot.py 135-140 calls
\* it.  tick.dest records that match_thread_id was set when the call was made.
\* A stored id that is the fallback channel's resolves as the fallback
\* channel does.
CallEnsureMatchThread ==
    /\ pc = "caller"
    /\ \E threadCached \in BOOLEAN, forumKind \in ChannelKinds, fallbackKind \in ChannelKinds :
         /\ match_thread_id = target_channel_id => (threadCached <=> fallbackKind # "none")
         /\ Apply(EnsureMatchThread(
                    [Cur EXCEPT !.tick = [NoTick EXCEPT !.kind = "ensure",
                                                        !.dest = (match_thread_id # NoId)],
                                !.log = << >>],
                    match, threadCached, forumKind, fallbackKind))
    /\ Frame

\* bot.py 135-141: the call has returned its destination, or raised; the
\* caller is done with it
EnsureReturns ==
    /\ pc \in {"live_send", "done"}
    /\ pc' = "caller"
    /\ UNCHANGED <<trackerVars, match, queue, tick, tickLog, emittedOnce, emittedTwice>>
    /\ Frame

NextEnsure ==
    \/ CallEnsureMatchThread
    \/ FindThreadReturns
    \/ CreateThreadReturns
    \/ PrematchSendReturns
    \/ EnsureReturns
    \/ Abort

SpecEnsure == InitEnsure /\ [][NextEnsure]_vars

\* ---- ScoreProvider and the fetches of a tick -------------------------------------
\* ESPN event ids; _extract_match makes the event id the fixture id
EspnIds == FixtureIds
\* the fixture id API-Football gives the match ESPN calls e
ApiFootballIdOf(e) == 10 + e
ApiFootballIds == {ApiFootballIdOf(e) : e \in EspnIds}

\* what a provider's fixture call gives: an id, no fixture, or an exception
ProviderResult(kind, id) == [kind |-> kind, id |-> id]
NoFixture == ProviderResult("none", NoId)
FetchRaises == ProviderResult("raise", NoId)
EspnResults == {ProviderResult("match", e) : e \in EspnIds} \cup {NoFixture, FetchRaises}
ApiFootballResults ==
    {ProviderResult("match", f) : f \in ApiFootballIds} \cup {NoFixture, FetchRaises}

\* provider.py 17-29: the event id held afterwards and the snapshot
\* returned (kind "none" for None, "raise" when API-Football raises)
GetCurrentOrNextFixture(held, espn, api) ==
    IF espn.kind = "match"
    THEN [held |-> espn.id, kind |-> "match",
          result |-> [fixture_id |-> espn.id, event_id |-> espn.id]]
    ELSE IF ~api_football THEN [held |-> held, kind |-> "none", result |-> NoSnapshot]
    ELSE IF api.kind = "match"
    THEN [held |-> held, kind |-> "match",
          result |-> [fixture_id |-> api.id, event_id |-> NoId]]
    ELSE [held |-> held, kind |-> api.kind, result |-> NoSnapshot]

\* ScoreProvider.__init__, with or without an API-Football key; the bot is
\* between two ticks
InitProvider ==
    /\ current_fixture_id = NoId
    /\ match_thread_id = NoId
    /\ last_score = None
    /\ posted_sub_keys = {}
    /\ posted_card_keys = {}
    /\ halftime_posted = FALSE
    /\ fulltime_posted = FALSE
    /\ threads_created_for = {}
    /\ forum_channel_id = NoId
    /\ target_channel_id = NoId
    /\ pc = "off"
    /\ match = NoMatch
    /\ queue = << >>
    /\ tick = NoTick
    /\ prev = NoPrev
    /\ tickLog = << >>
    /\ emittedOnce = {}
    /\ emittedTwice = {}
    /\ scen = Off
    /\ deferredFor = NoId
    /\ obs = "provider"
    /\ call = NoCall
    /\ aborted = NoAbort
    /\ update_task = "none"
    /\ liveTasks = 0
    /\ cancelling = NoCancelling
    /\ resumed = FALSE
    /\ delivered = "none"
    /\ legacy_channel_id = NoId
    /\ legacy_forum_channel_id = NoId
    /\ legacy_task = "none"
    /\ legacy_live = 0
    /\ legacy_cancelling = NoCancelling
    /\ legacy_resumed = FALSE
    /\ legacy_ctl = "none"
    /\ legacy_pc = "off"
    /\ legacy_match = NoLegacyMatch
    /\ legacy_interval = 0
    /\ legacy_current_match_id = NoId
    /\ legacy_last_state = ""
    /\ legacy_match_over = FALSE
    /\ legacy_thread = NoId
    /\ legacy_live_message = FALSE
    /\ legacy_seen_events = {}
    /\ legacy_queue = << >>
    /\ legacy_hist = NoHist
    /\ last_espn_event_id = NoId
    /\ api_football \in BOOLEAN
    /\ provider_pc = "sleep"
    /\ provider_snapshot = NoSnapshot
    /\ provider_fetch = NoFetch

ProviderFrame ==
    UNCHANGED <<trackerVars, forum_channel_id, target_channel_id, pc, match, queue,
                tick, prev, tickLog, emittedOnce, emittedTwice, scen, deferredFor,
                obs, call, aborted, taskVars, legacy_channel_id, legacy_forum_channel_id,
                legacy_task, legacy_live, legacy_cancelling, legacy_resumed, legacy_ctl,
                legacy_pc, legacy_match, legacy_interval, legacyTrackerVars, legacy_queue,
                legacy_hist, api_football>>

\* provider.py 37-40, 45-48 at the call: the ESPN event id the detail fetch
\* asks for (NoId: ESPN is not asked)
DetailFetch(feed) == [feed |-> feed, event_id |-> last_espn_event_id]

\* bot.py 117-119, 152-159: the tick's fixture fetch returns.  Without a
\* snapshot, or with one that is not in progress, the tick makes no detail
\* fetch; with one in progress it awaits a send first or calls get_cards
ProviderTickFetch ==
    /\ provider_pc = "sleep"
    /\ \E espn \in EspnResults, api \in ApiFootballResults, live \in BOOLEAN,
          sends \in BOOLEAN :
         LET r == GetCurrentOrNextFixture(last_espn_event_id, espn, api)
         IN  /\ last_espn_event_id' = r.held
             /\ IF r.kind # "match" \/ ~live
                THEN /\ provider_pc' = "done"
                     /\ provider_snapshot' = r.result
                     /\ provider_fetch' = NoFetch
                ELSE /\ provider_snapshot' = r.result
                     /\ IF sends
                        THEN provider_pc' = "alerts" /\ provider_fetch' = NoFetch
                        ELSE /\ provider_pc' = "cards_fetch"
                             /\ provider_fetch' = [feed |-> "cards", event_id |-> r.held]
    /\ ProviderFrame

\* bot.py 141, 154, 159: the send returns and the tick calls get_cards
ProviderGetCards ==
    /\ provider_pc = "alerts"
    /\ provider_pc' = "cards_fetch"
    /\ provider_fetch' = DetailFetch("cards")
    /\ UNCHANGED <<last_espn_event_id, provider_snapshot>>
    /\ ProviderFrame

\* bot.py 159-171: get_cards returns and the tick calls get_substitutions
ProviderGetSubstitutions ==
    /\ provider_pc = "cards_fetch"
    /\ provider_pc' = "subs_fetch"
    /\ provider_fetch' = DetailFetch("subs")
    /\ UNCHANGED <<last_espn_event_id, provider_snapshot>>
    /\ ProviderFrame

\* bot.py 171-188: get_substitutions returns and the tick runs to its end
ProviderTickEnds ==
    /\ provider_pc = "subs_fetch"
    /\ provider_pc' = "done"
    /\ UNCHANGED <<last_espn_event_id, provider_snapshot, provider_fetch>>
    /\ ProviderFrame

\* bot.py 114
ProviderSleep ==
    /\ provider_pc = "done"
    /\ provider_pc' = "sleep"
    /\ provider_snapshot' = NoSnapshot
    /\ provider_fetch' = NoFetch
    /\ UNCHANGED last_espn_event_id
    /\ ProviderFrame

\* bot.py 54-60: the fixture fetch of a whitecapsstatus command returns
\* while the tick is suspended at an await
WhitecapsStatus ==
    /\ provider_pc \in {"sleep", "alerts", "cards_fetch", "subs_fetch"}
    /\ \E espn \in EspnResults, api \in ApiFootballResults :
         last_espn_event_id' = GetCurrentOrNextFixture(last_espn_event_id, espn, api).held
    /\ UNCHANGED <<provider_pc, provider_snapshot, provider_fetch>>
    /\ ProviderFrame

NextProvider ==
    \/ ProviderTickFetch
    \/ ProviderGetCards
    \/ ProviderGetSubstitutions
    \/ ProviderTickEnds
    \/ ProviderSleep
    \/ WhitecapsStatus

SpecProvider == InitProvider /\ [][NextProvider]_vars

\* ---- the claims ---------------------------------------------------------------

Goal(fid, score) == Ev("goal", fid, score)
TickOver == pc = "done" /\ tick.kind = "match"
\* the tick in progress polls the same fixture as the tick before it, which
\* returned a snapshot
SecondOfPair == tick.kind = "match" /\ ~tick.fixture_changed /\ prev.score # None

\* C1: the scenario poll sequence [no snapshot, scheduled(+30h), scheduled(+20h),
\* in_progress 0-0, in_progress 1-0, halftime 1-0, in_progress 1-1, finished 1-1]
\* of one fixture produces: no action; no thread; the thread at the third
\* poll; a goal notification for 1-0; one halftime notification; a goal
\* notification for 1-1; one full-time notification and fulltime_posted.
C1_Scenario ==
    (pc = "done" /\ tick.outcome = "returned") =>
        /\ scen = 1 => current_fixture_id = NoId /\ tickLog = << >>
        /\ scen = 2 => match_thread_id = NoId /\ tickLog = << >>
        /\ scen = 3 => match_thread_id # NoId /\ current_fixture_id \in threads_created_for
        /\ scen = 5 => tickLog = << Goal(current_fixture_id, <<1, 0>>) >>
        /\ scen = 6 => CountKind(tickLog, "halftime") = 1 /\ CountKind(tickLog, "goal") = 0
        /\ scen = 7 => CountKind(tickLog, "goal") = 1
                       /\ Goal(current_fixture_id, <<1, 1>>) \in { tickLog[i] : i \in DOMAIN tickLog }
        /\ scen = 8 => CountKind(tickLog, "fulltime") = 1 /\ fulltime_posted

\* C2: thread creation is deferred, not decided once: when the poll on which a
\* fixture became current found it scheduled outside the window (no
\* destination), a later poll of the same fixture on which the policy says
\* yes acquires a destination.
C2_DeferredCreationRetried ==
    ( /\ TickOver /\ tick.outcome = "returned"
      /\ ~tick.fixture_changed
      /\ deferredFor # NoId /\ deferredFor = current_fixture_id
      /\ tick.policy )
    => match_thread_id # NoId

\* C3: each card dedupe key, each substitution dedupe key, the halftime
\* notification of a fixture and the full-time notification of a fixture is
\* emitted at most once per process lifetime, for every sequence of polls,
\* detail payloads, failed sends and fixture changes.
C3_AtMostOnce ==
    \A e \in emittedTwice : e.kind \notin {"card", "sub", "halftime", "fulltime"}

\* the tracker is back on a fixture one of whose cards it announced before it
\* moved to another fixture, and has seen a live snapshot of it again
C3_Witness ==
    /\ obs = "history"
    /\ TickOver /\ tick.fixture_changed /\ State(match) = "in"
    /\ \E e \in emittedOnce : e.kind = "card" /\ e.fid = match.fixture_id

\* C4: no score pair of a fixture is announced by more than one goal
\* notification (also when the score changes and later returns to an earlier
\* value).
C4_GoalPairOnce ==
    \A e \in emittedTwice : e.kind # "goal"

C6_GoalOnScoreChange ==
    ( /\ pc = "done" /\ SecondOfPair
      /\ prev.live /\ prev.score = <<0, 0>>
      /\ State(match) = "in" /\ Score(match) = <<1, 0>> /\ tick.dest )
    => /\ CountKind(tickLog, "goal") = 1
       /\ Goal(match.fixture_id, <<1, 0>>) \in { tickLog[i] : i \in DOMAIN tickLog }
       /\ last_score = <<1, 0>>

C6_Witness ==
    /\ pc = "done" /\ SecondOfPair
    /\ prev.live /\ prev.score = <<0, 0>>
    /\ State(match) = "in" /\ Score(match) = <<1, 0>> /\ tick.dest
    /\ tick.outcome = "returned"

C8_NoSnapshotReturnsToIdle ==
    (pc = "done" /\ tick.kind = "none") =>
        /\ current_fixture_id = NoId
        /\ match_thread_id = NoId
        /\ last_score = None
        /\ posted_card_keys = {} /\ posted_sub_keys = {}
        /\ ~halftime_posted /\ ~fulltime_posted

\* the reference policy of the thread-creation rule
RefPolicy(created, m, now) ==
    /\ m.fixture_id \notin created
    /\ \/ State(m) \in {"in", "post"}
       \/ m.starts_at # None /\ m.starts_at[1] - now <= 24
C9_PolicyInv == call.made => call.result = RefPolicy(threads_created_for, match, call.now)

\* C9: should_create_thread is the reference policy: false for a fixture id in
\* threads_created_for whatever the phase; otherwise true in progress or
\* finished; otherwise true exactly when the kickoff time is known and at
\* most the 24h window away.  The call leaves the tracker as it was.
C9_ShouldCreateThreadPolicy == []C9_PolicyInv /\ [][trackerVars' = trackerVars]_vars

\* a scheduled fixture exactly 24h from kickoff gets its thread
C9_Witness ==
    /\ call.made /\ call.result = TRUE
    /\ State(match) = "pre" /\ match.starts_at # None
    /\ match.starts_at[1] - call.now = THREAD_CREATION_WINDOW

\* a poll returns a snapshot of another fixture than the current one
FixtureChangePoll ==
    pc = "sleep" /\ tick'.kind = "match" /\ match'.fixture_id # current_fixture_id
\* a step unsets or empties one of the per-match fields
SomeFieldReset ==
    \/ last_score # None /\ last_score' = None
    \/ ~(posted_card_keys \subseteq posted_card_keys')
    \/ ~(posted_sub_keys \subseteq posted_sub_keys')
    \/ halftime_posted /\ ~halftime_posted'
    \/ fulltime_posted /\ ~fulltime_posted'
    \/ match_thread_id # NoId /\ match_thread_id' = NoId

\* C10: last_score, the announced card and substitution key sets, both flags
\* and the thread id are reset in one step, together with current_fixture_id
\* being set to the new id, when a poll returns a snapshot whose fixture id
\* differs from current_fixture_id; no other step resets any of them.
C10_ResetOnFixtureChange ==
    [][ /\ FixtureChangePoll =>
            /\ current_fixture_id' = match'.fixture_id
            /\ last_score' = None
            /\ posted_card_keys' = {} /\ posted_sub_keys' = {}
            /\ ~halftime_posted' /\ ~fulltime_posted'
            /\ match_thread_id' = NoId
        /\ SomeFieldReset => FixtureChangePoll ]_vars

\* the tracker came back to a fixture it had a thread for: everything is reset
C10_Witness ==
    /\ obs = "tick"
    /\ TickOver /\ tick.fixture_changed
    /\ match.fixture_id \in threads_created_for
    /\ match_thread_id = NoId /\ last_score = None

\* C11: threads_created_for only grows: no step of a tick, of a failed tick or
\* of a start or stop command, and no fixture change, removes a fixture id from it.
C11_ThreadsCreatedForGrows ==
    [][threads_created_for \subseteq threads_created_for']_vars

\* the tracker has a thread on record, has moved to another fixture, and the
\* loop task has been stopped (its cancellation is still to be delivered)
C11_Witness ==
    /\ threads_created_for # {}
    /\ current_fixture_id # NoId /\ current_fixture_id \notin threads_created_for
    /\ cancelling.tick + cancelling.outside > 0

\* C12: when a poll makes current a fixture id that is already in
\* threads_created_for, the tick that returns has a destination again (the
\* thread id is set), so that notifications for the fixture go there.
C12_ReusesDestination ==
    ( /\ TickOver /\ tick.outcome = "returned" /\ tick.fixture_changed
      /\ match.fixture_id \in threads_created_for )
    => match_thread_id # NoId

\* C17: a whitecapslive command issued while a loop task exists and is not
\* finished changes nothing: no task is created, and the tracker, the task
\* handle and the fallback target channel id stay as they were.
C17_StartWhileRunningIsNoOp ==
    [][ (WhitecapsLive /\ TaskRunning(update_task)) =>
            UNCHANGED <<trackerVars, forum_channel_id, target_channel_id,
                        update_task, liveTasks, pc>> ]_vars

\* C19: there is a single polling task: at most one loop task that has not
\* been cancelled exists, no cancelled task runs on, and tick code only runs
\* in that one task.
C19_SinglePollingTask ==
    /\ liveTasks <= 1
    /\ ~resumed
    /\ pc \notin {"unstarted", "notask"} => liveTasks = 1

\* a new loop task is in the middle of a tick while the cancellation of the
\* task before it, stopped inside a tick, has not been delivered yet
C19_Witness ==
    /\ liveTasks = 1 /\ cancelling.tick > 0
    /\ pc \in TickAwaits

\* a tick of either loop has ended with an exception other than a cancellation
BotTickFailed == pc = "done" /\ tick.outcome = "raised"
LegacyTickFailed == legacy_pc = "done" /\ legacy_match.outcome = "raised"

\* C13: in both polling loops an exception other than a cancellation that
\* leaves a tick never terminates the loop: no loop is ever left by an
\* exception, and after a failed tick the loop goes to sleep (the legacy loop
\* for the idle interval), from where the next tick runs, however many ticks
\* in a row have failed.
C13_FailureIsolation ==
    /\ [](pc # "crashed" /\ legacy_pc # "crashed")
    /\ [][ /\ BotTickFailed => pc' = "sleep"
           /\ LegacyTickFailed =>
                 legacy_pc' = "sleep" /\ legacy_interval' = POLL_INTERVAL_IDLE ]_vars

\* a tick fails right after a tick that failed
C13_Witness == BotTickFailed /\ prev.failed

\* C14: a cancellation delivered to a loop task, inside a tick or outside
\* one, is never taken by the generic failure handler: the task does not run
\* on, so the delivery changes neither the number of running loops nor the
\* position of the loop the handle refers to.
C14_CancellationPropagates ==
    /\ [](~resumed /\ ~legacy_resumed)
    /\ [][ /\ cancelling' # cancelling /\ update_task' = update_task =>
                 liveTasks' = liveTasks /\ pc' = pc
           /\ legacy_cancelling' # legacy_cancelling /\ legacy_task = "cancelling"
                 /\ legacy_pc' = legacy_pc =>
                 legacy_live' = legacy_live /\ legacy_task' = "done" ]_vars

\* a cancellation was delivered inside a tick and no loop task runs
C14_Witness == delivered = "tick" /\ liveTasks = 0 /\ pc = "notask" /\ update_task = "none"

\* C15: every legacy tick that observes a match in state pre returns
\* POLL_INTERVAL_PRE, on the tick that first detects the match and on every
\* later one.
C15_ScheduledTickReturnsPre ==
    (legacy_pc = "done" /\ legacy_match.outcome = "returned" /\ legacy_match.state = "pre")
        => legacy_interval = POLL_INTERVAL_PRE

\* C16: the legacy loop sleeps POLL_INTERVAL_LIVE after a tick that returns
\* having observed a match in progress, and POLL_INTERVAL_IDLE after a tick
\* that observed no match, observed a finished match (when it detects full
\* time and on every later tick), or raised an exception other than a
\* cancellation.
C16_LiveAndIdleIntervals ==
    legacy_pc = "done" =>
        /\ (legacy_match.outcome = "returned" /\ legacy_match.state = "in")
              => legacy_interval = POLL_INTERVAL_LIVE
        /\ (legacy_match.outcome = "returned" /\ legacy_match.state \in {"", "post"})
              => legacy_interval = POLL_INTERVAL_IDLE
        /\ legacy_match.outcome = "raised" => legacy_interval = POLL_INTERVAL_IDLE

\* a tick after the one that detected full time observes the finished match again
C16_Witness ==
    /\ legacy_pc = "done" /\ legacy_match.outcome = "returned"
    /\ legacy_match.state = "post" /\ ~legacy_match.new
    /\ legacy_match_over /\ legacy_last_state = "post"
    /\ legacy_interval = POLL_INTERVAL_IDLE

\* C18: after stop() followed by start() on the legacy tracker, in any
\* interleaving with the loop task, a polling loop that has not been
\* cancelled is running.
C18_StopThenStartRuns == legacy_ctl = "restarted" => legacy_live >= 1

\* C20: in the legacy bot at most one MatchTracker polling loop is running
\* at any time, for any number of on_ready events.
C20_SingleLegacyLoop == legacy_live <= 1

\* the phase the status codes stand for: the ESPN state codes IN and POST,
\* the API-Football live and final codes, anything else scheduled
RefState(short) ==
    IF short = "IN" \/ short \in IN_MATCH_CODES THEN "in"
    ELSE IF short = "POST" \/ short \in FINAL_CODES THEN "post"
    ELSE "pre"

\* C24: MatchState.state maps short_status IN to in and POST to post (the
\* ESPN state codes), the API-Football live codes to in, its final codes to
\* post and every other code to pre.
C24_StateSupportsEspnCodes == match # NoMatch => State(match) = RefState(match.status[1])

\* C27: whenever match_thread_id is set, current_fixture_id is set and is a
\* member of threads_created_for.
C27_ThreadImpliesRecorded ==
    match_thread_id # NoId =>
        current_fixture_id # NoId /\ current_fixture_id \in threads_created_for

\* the tracker holds the destination of the second fixture it has acquired one for
C27_Witness ==
    /\ match_thread_id # NoId
    /\ current_fixture_id = 2
    /\ threads_created_for = {1, 2}

AlertKinds == {"goal", "card", "sub", "halftime", "fulltime"}
PerMatchFields == <<last_score, posted_sub_keys, posted_card_keys, halftime_posted,
                    fulltime_posted>>

\* C28: a tick that has no destination (match_thread_id unset or not
\* resolvable) emits no goal, card, substitution, halftime or full-time
\* notification and leaves last_score, the announced-key sets, halftime_posted
\* and fulltime_posted as they were, apart from the reset of a fixture change.
C28_NoDestinationNoEffect ==
    /\ [](~tick.dest => \A i \in 1..Len(tickLog) : tickLog[i].kind \notin AlertKinds)
    /\ [][ ~tick'.dest =>
             \/ PerMatchFields' = PerMatchFields
             \/ /\ pc = "sleep" /\ tick'.fixture_changed
                /\ PerMatchFields' = <<None, {}, {}, FALSE, FALSE>> ]_vars

\* a live snapshot with a score not yet announced is polled while the stored
\* thread id cannot be resolved, and the tick returns
C28_Witness ==
    /\ TickOver /\ tick.outcome = "returned" /\ ~tick.dest
    /\ match_thread_id # NoId
    /\ State(match) = "in" /\ Score(match) # last_score

\* C22: a failed fixture fetch ends the tick with nothing emitted and every
\* tracker field unchanged; a failed card or substitution fetch emits no
\* card or substitution, leaves the announced-key sets unchanged and lets the
\* tick go on: after a failed card fetch to the substitution fetch, after a
\* failed substitution fetch to the halftime and full-time checks.
C22_FetchFailureIsNoData ==
    /\ [][ (pc = "sleep" /\ tick'.kind = "fail") =>
             UNCHANGED trackerVars /\ tickLog' = << >> ]_vars
    /\ [][ (pc = "cards_fetch" /\ tick'.detail_failed = "cards") =>
             /\ UNCHANGED <<trackerVars, tickLog>>
             /\ pc' = "subs_fetch" ]_vars
    /\ [][ (pc = "subs_fetch" /\ tick'.detail_failed = "subs") =>
             /\ UNCHANGED <<posted_card_keys, posted_sub_keys>>
             /\ CountKind(tickLog', "sub") = CountKind(tickLog, "sub")
             /\ IF IsHalftime(match) /\ ~halftime_posted
                THEN /\ halftime_posted' /\ pc' = "ht_send"
                     /\ CountKind(tickLog', "halftime") = 1
                ELSE pc' = "done" /\ tick'.outcome = "returned" ]_vars

\* a tick whose substitution fetch failed has announced halftime and returned
C22_Witness ==
    /\ TickOver /\ tick.outcome = "returned"
    /\ tick.detail_failed = "subs"
    /\ CountKind(tickLog, "halftime") = 1

\* C21: a notification whose send failed is not emitted again on any later
\* tick (the goal pair, card key, substitution key, halftime or full time
\* was marked as announced before the send).
C21_FailedSendNotRetried == aborted.ev \notin emittedTwice

\* C23: after a tick was aborted at an await point, a later tick for the
\* same fixture that returns, with the thread policy allowing a thread, has
\* acquired a destination.
C23_AbortedTickDoesNotPoison ==
    ( /\ TickOver /\ tick.outcome = "returned"
      /\ aborted # NoAbort /\ aborted.fid = match.fixture_id
      /\ ~tick.fixture_changed /\ tick.policy )
    => match_thread_id # NoId

\* C25: once a call of ensure_match_thread has set match_thread_id, a further
\* call for the same match creates no additional thread and sends no
\* additional pre-match message.
C25_EnsureIdempotent ==
    (tick.kind = "ensure" /\ tick.dest) =>
        /\ pc \notin {"create_thread", "prematch_send"}
        /\ CountKind(tickLog, "prematch") = 0

\* C29: on every detail fetch of a tick, the ESPN event id ScoreProvider
\* holds (and asks ESPN for) is the one that was returned together with the
\* tick's snapshot.
C29_DetailFetchUsesSnapshotEvent ==
    provider_fetch.feed # "" => provider_fetch.event_id = provider_snapshot.event_id

\* C26: in the legacy MatchTracker each key event of a match, identified
\* by its event key, is announced at most once per process lifetime,
\* whatever the scoreboard polls return.
C26_KeyEventAnnouncedOnce == legacy_hist.evs <= 1

\* C30: the legacy MatchTracker creates at most one forum thread per match
\* id per process lifetime, whatever the scoreboard polls return.
C30_OneForumThreadPerMatch == legacy_hist.threads <= 1
=============================================================================
